---- MODULE Spec2Model ----
(***************************************************************************)
(* The EKF estimator of src/filters/extended_kalman_filter.py as a state   *)
(* machine: one action per public method (add_marker, predict, update,     *)
(* observe), the accessors get_poses / get_lm_uncertainties as operators.  *)
(*                                                                         *)
(* Numbers.  The source computes in float64; the model computes in fixed   *)
(* point over the integers:                                                *)
(*   - positions (state entries 1..3 and every landmark block) in whole    *)
(*     length units;                                                       *)
(*   - the orientation quaternion (state entries 4..7, order qx qy qz qw)  *)
(*     in units of 1/QuatScale, so a unit quaternion has squared norm      *)
(*     QuatScale^2 up to rounding;                                         *)
(*   - covariance entries in tenths (0.1 -> 1, 0.7 -> 7, 0.3 -> 3).        *)
(* Inputs are finite and of ordinary magnitude (no float overflow), and    *)
(* initial camera poses carry a unit quaternion.                           *)
(*                                                                         *)
(* The Kalman gain.  Lines 112-121 compute kalman_gain = P dh' S^-1 by a   *)
(* sparse solve.  The model does not evaluate the Jacobian and the solve:  *)
(* kalman_gain is a fixed dense n x m gain and posterior a fixed dense     *)
(* n x n covariance, both of the shapes the source produces.  Everything   *)
(* around the gain is computed as the source computes it: the zip of ids   *)
(* and poses, the registry look-ups, the stacking of z and h, the          *)
(* innovation K (z - h), the in-place state correction, the quaternion     *)
(* normalisation and the shapes of all results.                            *)
(*                                                                         *)
(* The solve.  Line 120 inverts s = dh P dh' + R through scipy's sparse LU *)
(* factorisation.  With a positive semi-definite covariance P, s is        *)
(* positive definite and the solve is finite.  add_marker accepts any      *)
(* caller-supplied uncertainty, so P can stop being positive semi-definite *)
(* and s can then be singular or ill-conditioned; what the solver does     *)
(* with such an s is library behaviour, and the model draws it: the        *)
(* factorisation raises RuntimeError ("singular"), or it completes with    *)
(* non-finite entries ("nonfinite"), which lines 121-132 then write into   *)
(* the state and the covariance.  A non-finite float is the value NaN.     *)
(***************************************************************************)
EXTENDS Integers, Sequences, FiniteSets, TLC

VARIABLES
    state,          \* self.state: the state vector, a sequence of scalars
    uncertainty,    \* self.uncertainty: the covariance, a sequence of rows
    num_landmarks,  \* self.num_landmarks
    landmarks,      \* self.landmarks: dict marker id -> landmark index
    call,           \* the last call made on the estimator: [op, ids, poses]
    raised,         \* the exception the last call ended with, or "none"
    ret,            \* the value the last call returned: <<>> is None
    trace           \* the steps the last call ran, in order

vars == <<state, uncertainty, num_landmarks, landmarks, call, raised, ret, trace>>

----------------------------------------------------------------------------
(* Program constants (covariance constants in tenths).                     *)

INITIAL_CAMERA_UNCERTAINTY == 1
INITIAL_LANDMARK_UNCERTAINTY == 7
Q_UNCERTAINTY_CAM == 3
Q_UNCERTAINTY_LM == 0
CAM_DIMS == 7
LM_DIMS == 3
XYZ_DIMS == 3

(* The fixed-point unit of a quaternion component: 1.0 is QuatScale.       *)
QuatScale == 10 * 10

(* Fixed-point tolerance on the squared norm of a normalised quaternion:   *)
(* rounding each of the four components to the nearest 1/QuatScale moves   *)
(* the squared norm by at most sum |q_i| + 1 <= 2 * QuatScale + 1.         *)
QuatTol == 3 * QuatScale

----------------------------------------------------------------------------
(* Bounds of the model.                                                    *)

\* add_marker is explored while fewer than MaxLandmarks landmarks exist.
MaxLandmarks == 2
\* predict is explored while the camera variance is at most MaxVariance.
MaxVariance == 2
\* an update that corrects the state is explored while every camera
\* coordinate is at most MaxCamera in magnitude.
MaxCamera == 0

\* Marker ids the caller may pass.
MarkerIds == {1, 2}

\* Observed marker poses (x, y, z, qx, qy, qz, qw) in the camera frame.
PoseA == <<0, 0, 1, 0, 0, 0, QuatScale>>
PoseB == <<1, 0, 2, 0, 0, 0, QuatScale>>
PoseVals == {PoseA, PoseB}

\* The (ids, poses) arguments of observe and update: the empty batch, one
\* marker, two markers, a repeated id (its second sighting at another pose),
\* more ids than poses, more poses than ids.
Batch(ids, poses) == [ids |-> ids, poses |-> poses]

Batches ==
    { Batch(<< >>, << >>),
      Batch(<<1>>, <<PoseA>>),
      Batch(<<2>>, <<PoseB>>),
      Batch(<<1, 2>>, <<PoseA, PoseB>>),
      Batch(<<1, 1>>, <<PoseA, PoseB>>),
      Batch(<<1, 2>>, <<PoseA>>),
      Batch(<<2>>, <<PoseA, PoseB>>) }

\* Initial camera poses: identity orientation, and a half turn about x.
InitialPoses == {<<0, 0, 0, 0, 0, 0, QuatScale>>, <<0, 0, 0, QuatScale, 0, 0, 0>>}

\* Caller-supplied landmark uncertainty of add_marker: <<>> is None.
UncertaintyArgs == {<<>>, <<5>>}

\* Caller-supplied landmark uncertainty when the caller may pass any number:
\* none, or a negative one (-1.0), which add_marker does not reject.
AnyUncertaintyArgs == {<<>>, <<-10>>}

\* What the sparse solve of line 120 can do.
SolveOutcomes == {"finite", "singular", "nonfinite"}

\* A non-finite float (nan or inf), as a value no finite entry takes.
NaN == -(QuatScale * QuatScale * QuatScale)

----------------------------------------------------------------------------
(* Arithmetic helpers.                                                     *)

Min(a, b) == IF a <= b THEN a ELSE b

\* The sequence f itself, as a tuple whose entries are evaluated once; Mat
\* does the same for a matrix given as a sequence of rows.
Vec(f) == f \o << >>

Mat(a) == Vec([i \in 1..Len(a) |-> Vec(a[i])])

Abs(a) == IF a < 0 THEN -a ELSE a

\* a / b rounded to the nearest integer (b > 0).
RoundDiv(a, b) == (2 * a + b) \div (2 * b)

RECURSIVE SqrtSearch(_, _, _)
SqrtSearch(x, lo, hi) ==
    IF lo >= hi THEN lo
    ELSE LET mid == (lo + hi + 1) \div 2
         IN IF mid * mid <= x THEN SqrtSearch(x, mid, hi)
            ELSE SqrtSearch(x, lo, mid - 1)

\* floor of the square root of x >= 0.
ISqrt(x) == SqrtSearch(x, 0, Min(x, 46340))

RECURSIVE SumTo(_, _)
SumTo(f, n) == IF n = 0 THEN 0 ELSE f[n] + SumTo(f, n - 1)

\* u . v for sequences of equal length.
Dot(u, v) == SumTo([k \in 1..Len(u) |-> u[k] * v[k]], Len(u))

\* a @ v for a matrix given as a sequence of rows.
MatVec(a, v) == Vec([i \in 1..Len(a) |-> Dot(a[i], v)])

VecAdd(u, v) == Vec([k \in 1..Len(u) |-> u[k] + v[k]])

VecSub(u, v) == Vec([k \in 1..Len(u) |-> u[k] - v[k]])

\* np.eye(n) * c
ScaledEye(n, c) ==
    Mat([i \in 1..n |-> [j \in 1..n |-> IF i = j THEN c ELSE 0]])

\* zip(ids, poses): pairs up to the shorter of the two.
Zip(ids, poses) ==
    [k \in 1..Min(Len(ids), Len(poses)) |-> <<ids[k], poses[k]>>]

----------------------------------------------------------------------------
(* Rotations.                                                              *)

\* Rotation.from_quat(q).as_matrix() for q = (x, y, z, w): the homogeneous
\* rotation matrix, which is the rotation scaled by q . q (from_quat divides
\* q by its norm first, which InvRotate does by dividing by q . q).
QuatMatrix(q) ==
    LET x == q[1]
        y == q[2]
        z == q[3]
        w == q[4]
    IN << << x*x - y*y - z*z + w*w, 2 * (x*y - z*w), 2 * (x*z + y*w) >>,
          << 2 * (x*y + z*w), -(x*x) + y*y - z*z + w*w, 2 * (y*z - x*w) >>,
          << 2 * (x*z - y*w), 2 * (y*z + x*w), -(x*x) - y*y + z*z + w*w >> >>

\* np.linalg.inv(rot) @ v: the inverse of a rotation is its transpose.
InvRotate(q, v) ==
    LET m == QuatMatrix(q)
        qq == Dot(q, q)
    IN Vec([j \in 1..XYZ_DIMS |->
          RoundDiv(m[1][j] * v[1] + m[2][j] * v[2] + m[3][j] * v[3], qq)])

\* self.h: the landmark position in the camera frame, rot_cm (xyz_ml - xyz_mc),
\* of the 10 scalars x = camera state followed by landmark state.
h(x) ==
    InvRotate(SubSeq(x, XYZ_DIMS + 1, CAM_DIMS),
              VecSub(SubSeq(x, CAM_DIMS + 1, CAM_DIMS + LM_DIMS),
                     SubSeq(x, 1, XYZ_DIMS)))

\* np.linalg.norm(q), in units of 1/10 of a quaternion unit.
QuatNorm10(q) == ISqrt(100 * Dot(q, q))

\* An update that skips the normalisation of the quaternion.
KeepQuat(q) == q

\* state[XYZ_DIMS:CAM_DIMS] /= np.linalg.norm(state[XYZ_DIMS:CAM_DIMS])
NormalizeQuat(q) ==
    LET norm10 == QuatNorm10(q)
    IN Vec([k \in 1..Len(q) |-> RoundDiv(q[k] * QuatScale * 10, norm10)])

----------------------------------------------------------------------------
(* The estimator.  An estimator value is the record of the four fields     *)
(* the methods read and write.                                             *)

Ekf(s, u, n, l) ==
    [state |-> s, uncertainty |-> u, num_landmarks |-> n, landmarks |-> l]

\* EKF.__init__
EkfInit(initial_camera_pose) ==
    Ekf(initial_camera_pose,
        ScaledEye(CAM_DIMS, INITIAL_CAMERA_UNCERTAINTY),
        0,
        << >>)

\* self.state[LM_DIMS * index + CAM_DIMS : LM_DIMS * index + CAM_DIMS + LM_DIMS]
LandmarkState(e, index) ==
    SubSeq(e.state, LM_DIMS * index + CAM_DIMS + 1,
                    LM_DIMS * index + CAM_DIMS + LM_DIMS)

\* EKF.get_poses
get_poses(e) ==
    LET camera_pose == SubSeq(e.state, 1, CAM_DIMS)
        flat == SubSeq(e.state, CAM_DIMS + 1, Len(e.state))
        marker_poses ==
            [r \in 1..(Len(flat) \div LM_DIMS) |->
                [c \in 1..LM_DIMS |-> flat[LM_DIMS * (r - 1) + c]]]
    IN <<camera_pose, marker_poses>>

\* An accessor that slices the covariance diagonal one entry early.
get_lm_uncertainties_early(e) ==
    LET diagonal == [k \in 1..Len(e.uncertainty) |-> e.uncertainty[k][k]]
        flat == SubSeq(diagonal, CAM_DIMS, Len(diagonal))
    IN [r \in 1..(Len(flat) \div LM_DIMS) |->
          [c \in 1..LM_DIMS |-> flat[LM_DIMS * (r - 1) + c]]]

\* EKF.get_lm_uncertainties
get_lm_uncertainties(e) ==
    LET diagonal == [k \in 1..Len(e.uncertainty) |-> e.uncertainty[k][k]]
        flat == SubSeq(diagonal, CAM_DIMS + 1, Len(diagonal))
    IN [r \in 1..(Len(flat) \div LM_DIMS) |->
          [c \in 1..LM_DIMS |-> flat[LM_DIMS * (r - 1) + c]]]

\* A predict that adds the camera process noise to every diagonal entry.
predict_all(e) ==
    LET q_dims == LM_DIMS * e.num_landmarks + CAM_DIMS
    IN [e EXCEPT !.uncertainty =
          Mat([i \in 1..q_dims |-> [j \in 1..q_dims |->
                e.uncertainty[i][j] + (IF i = j THEN Q_UNCERTAINTY_CAM ELSE 0)]])]

\* EKF.predict
predict(e) ==
    LET q_dims == LM_DIMS * e.num_landmarks + CAM_DIMS
        q == Mat([i \in 1..q_dims |-> [j \in 1..q_dims |->
                IF i # j THEN 0
                ELSE IF i <= CAM_DIMS THEN Q_UNCERTAINTY_CAM
                ELSE Q_UNCERTAINTY_LM]])
    IN [e EXCEPT !.uncertainty =
          Mat([i \in 1..q_dims |-> [j \in 1..q_dims |->
                e.uncertainty[i][j] + q[i][j]]])]

\* An add_marker that appends the landmark to the state vector and leaves
\* the covariance at its old dimension.
add_marker_state_only(e, idx, pose, uncertainity) ==
    Ekf(e.state \o SubSeq(pose, 1, XYZ_DIMS), e.uncertainty,
        e.num_landmarks + 1, (idx :> e.num_landmarks) @@ e.landmarks)

\* An add_marker that fills the whole new block, off-diagonal entries
\* included, with the landmark uncertainty.
add_marker_correlated(e, idx, pose, uncertainity) ==
    LET n_dims == LM_DIMS * (e.num_landmarks + 1) + CAM_DIMS
        scale == IF uncertainity # << >> THEN uncertainity[1]
                 ELSE INITIAL_LANDMARK_UNCERTAINTY
    IN Ekf(e.state \o SubSeq(pose, 1, XYZ_DIMS),
           Mat([i \in 1..n_dims |-> [j \in 1..n_dims |->
                IF i <= n_dims - LM_DIMS /\ j <= n_dims - LM_DIMS
                THEN e.uncertainty[i][j]
                ELSE IF i > n_dims - LM_DIMS /\ j > n_dims - LM_DIMS
                THEN scale ELSE 0]]),
           e.num_landmarks + 1, (idx :> e.num_landmarks) @@ e.landmarks)

\* EKF.add_marker; uncertainity is <<>> (None) or <<u>>.
add_marker(e, idx, pose, uncertainity) ==
    LET landmarks1 == (idx :> e.num_landmarks) @@ e.landmarks
        num1 == e.num_landmarks + 1
        camera_pose == SubSeq(e.state, 1, CAM_DIMS)
        camera_translation == SubSeq(camera_pose, 1, XYZ_DIMS)
        camera_rotation == SubSeq(camera_pose, XYZ_DIMS + 1, CAM_DIMS)
        t_ml == VecAdd(InvRotate(camera_rotation, SubSeq(pose, 1, XYZ_DIMS)),
                       camera_translation)
        n_dims == LM_DIMS * num1 + CAM_DIMS
        scale == IF uncertainity # << >> THEN uncertainity[1]
                 ELSE INITIAL_LANDMARK_UNCERTAINTY
        new_uncertainty ==
            Mat([i \in 1..n_dims |-> [j \in 1..n_dims |->
                IF i <= n_dims - LM_DIMS /\ j <= n_dims - LM_DIMS
                THEN e.uncertainty[i][j]
                ELSE IF i = j THEN scale ELSE 0]])
    IN Ekf(e.state \o t_ml, new_uncertainty, num1, landmarks1)

\* Entry c of a stacked vector belongs to observation ObsOf(c) and is its
\* coordinate CoordOf(c) (np.hstack of 3-vectors).
ObsOf(c) == ((c - 1) \div XYZ_DIMS) + 1

CoordOf(c) == ((c - 1) % XYZ_DIMS) + 1

\* EKF.parse_poses: the stacked observations z, the stacked predictions h and,
\* for the Jacobian, the landmark index of every stacked observation.  The
\* first id that is not a key of self.landmarks ends the loop with KeyError.
parse_poses(e, ids, poses) ==
    LET pairs == Zip(ids, poses)
        known(k) == pairs[k][1] \in DOMAIN e.landmarks
        index(k) == e.landmarks[pairs[k][1]]
    IN IF \E k \in 1..Len(pairs) : ~known(k)
       THEN [raised |-> "KeyError", z |-> << >>, h |-> << >>, rows |-> << >>]
       ELSE [raised |-> "none",
             z |-> Vec([c \in 1..(XYZ_DIMS * Len(pairs)) |->
                      pairs[ObsOf(c)][2][CoordOf(c)]]),
             h |-> Vec([c \in 1..(XYZ_DIMS * Len(pairs)) |->
                      h(SubSeq(e.state, 1, CAM_DIMS)
                        \o LandmarkState(e, index(ObsOf(c))))
                          [CoordOf(c)]]),
             rows |-> Vec([k \in 1..Len(pairs) |-> index(k)])]

\* kalman_gain (n x m), dense: every state entry is corrected by every
\* residual, a quaternion entry by 1/10 of it.
kalman_gain(n, m) ==
    Mat([i \in 1..n |-> [j \in 1..m |->
          IF i > XYZ_DIMS /\ i <= CAM_DIMS THEN QuatScale \div 10 ELSE 1]])

\* (ident - kalman_gain @ dh) @ self.uncertainty (n x n, tenths), dense.
posterior(n) ==
    Mat([i \in 1..n |-> [j \in 1..n |-> IF i = j THEN 2 ELSE 1]])

\* The solve of line 120 on the estimator e for the observed landmark
\* indices rows, s being what the solver does with a degenerate matrix: the
\* solve is finite unless an observed landmark carries a negative variance.
spsolve(e, rows, s) ==
    IF \E k \in 1..Len(rows) :
          \E c \in 1..LM_DIMS :
             e.uncertainty[LM_DIMS * rows[k] + CAM_DIMS + c]
                          [LM_DIMS * rows[k] + CAM_DIMS + c] < 0
    THEN s ELSE "finite"

\* EKF.update: [ekf, raised].  sparse.csr_matrix(None) raises when
\* parse_poses stacked nothing, and the factorisation raises on a singular
\* matrix; nothing is written before either.  Non-finite solve results are
\* written into every entry of the state and the covariance.
update(e, ids, poses, s) ==
    LET parsed == parse_poses(e, ids, poses)
        n == LM_DIMS * e.num_landmarks + CAM_DIMS
        s_inv == spsolve(e, parsed.rows, s)
        innovation == MatVec(kalman_gain(n, Len(parsed.z)),
                             VecSub(parsed.z, parsed.h))
        state1 == VecAdd(e.state, innovation)
        quat == NormalizeQuat(SubSeq(state1, XYZ_DIMS + 1, CAM_DIMS))
        state2 == Vec([k \in 1..Len(state1) |->
                     IF k > XYZ_DIMS /\ k <= CAM_DIMS THEN quat[k - XYZ_DIMS]
                     ELSE state1[k]])
    IN IF parsed.raised # "none" THEN [ekf |-> e, raised |-> parsed.raised]
       ELSE IF Len(parsed.z) = 0 THEN [ekf |-> e, raised |-> "TypeError"]
       ELSE IF s_inv = "singular" THEN [ekf |-> e, raised |-> "RuntimeError"]
       ELSE IF s_inv = "nonfinite"
       THEN [ekf |-> [e EXCEPT !.state = Vec([k \in 1..n |-> NaN]),
                               !.uncertainty =
                                  Mat([i \in 1..n |-> [j \in 1..n |-> NaN]])],
             raised |-> "none"]
       ELSE [ekf |-> [e EXCEPT !.state = state2,
                               !.uncertainty = posterior(n)],
             raised |-> "none"]

\* One step of a call, with the marker ids registered when the step starts
\* (for add_marker: when it has ended).
Step(name, idx, e) == [step |-> name, id |-> idx, known |-> DOMAIN e.landmarks]

\* EKF.observe, the loop "add any new markers" from pair k on.
RECURSIVE register(_, _, _)
register(e, pairs, k) ==
    IF k > Len(pairs) THEN [ekf |-> e, steps |-> << >>]
    ELSE IF pairs[k][1] \in DOMAIN e.landmarks THEN register(e, pairs, k + 1)
    ELSE LET e1 == add_marker(e, pairs[k][1], pairs[k][2], << >>)
             rest == register(e1, pairs, k + 1)
         IN [ekf |-> rest.ekf,
             steps |-> <<Step("add_marker", pairs[k][1], e1)>> \o rest.steps]

\* An observe that restores the estimator it started from when its update
\* step raises.
observe_atomic(e, ids, poses, s) ==
    LET reg == register(e, Zip(ids, poses), 1)
        e2 == predict(reg.ekf)
        upd == update(e2, ids, poses, s)
    IN [ekf |-> IF upd.raised # "none" THEN e ELSE upd.ekf,
        raised |-> upd.raised,
        ret |-> << >>,
        steps |-> reg.steps \o <<Step("predict", 0, reg.ekf)>>
                            \o <<Step("update", 0, e2)>>]

\* EKF.observe: the estimator it leaves, the
\* exception it ends with, the value it returns (the method has no return
\* statement, so it returns None) and the steps it ran.
observe(e, ids, poses, s) ==
    LET reg == register(e, Zip(ids, poses), 1)
        e2 == predict(reg.ekf)
        upd == update(e2, ids, poses, s)
    IN [ekf |-> upd.ekf,
        raised |-> upd.raised,
        ret |-> << >>,
        steps |-> reg.steps \o <<Step("predict", 0, reg.ekf)>>
                            \o <<Step("update", 0, e2)>>]

----------------------------------------------------------------------------
(* The state machine.                                                      *)

Self == Ekf(state, uncertainty, num_landmarks, landmarks)

Call(op, ids, poses, unc) == [op |-> op, ids |-> ids, poses |-> poses, unc |-> unc]

\* The estimator fields after a call left the estimator e.
Becomes(e) ==
    /\ state' = e.state
    /\ uncertainty' = e.uncertainty
    /\ num_landmarks' = e.num_landmarks
    /\ landmarks' = e.landmarks

\* Exploration bounds on the values (see the bounds above).
CameraBounded == \A k \in 1..XYZ_DIMS : Abs(state[k]) <= MaxCamera

VarianceBounded == uncertainty[1][1] <= MaxVariance

NewIds(ids, poses) ==
    {Zip(ids, poses)[k][1] : k \in 1..Len(Zip(ids, poses))} \ DOMAIN landmarks

Init ==
    \E pose \in InitialPoses :
        /\ state = EkfInit(pose).state
        /\ uncertainty = EkfInit(pose).uncertainty
        /\ num_landmarks = EkfInit(pose).num_landmarks
        /\ landmarks = EkfInit(pose).landmarks
        /\ call = Call("init", << >>, <<pose>>, << >>)
        /\ raised = "none"
        /\ ret = << >>
        /\ trace = << >>

\* The shared variables after a call that left the estimator e.
Returns(c, e, exc, value, steps) ==
    /\ Becomes(e)
    /\ call' = c
    /\ raised' = exc
    /\ ret' = value
    /\ trace' = steps

\* What the solve of the next update can do: with no negative variance in
\* the covariance it is finite.
Solves ==
    IF \E i \in 1..Len(uncertainty) : uncertainty[i][i] < 0
    THEN SolveOutcomes ELSE {"finite"}

\* Every entry of the state and the covariance is finite.
IsFinite ==
    /\ \A k \in 1..Len(state) : state[k] # NaN
    /\ \A i \in 1..Len(uncertainty) :
          \A j \in 1..Len(uncertainty[i]) : uncertainty[i][j] # NaN

AddMarker ==
    /\ num_landmarks < MaxLandmarks
    /\ \E idx \in MarkerIds, pose \in PoseVals, unc \in UncertaintyArgs :
        \E e1 \in {add_marker(Self, idx, pose, unc)} :
            Returns(Call("add_marker", <<idx>>, <<pose>>, unc), e1, "none",
                    << >>, <<Step("add_marker", idx, e1)>>)

Predict ==
    /\ VarianceBounded
    /\ \E e1 \in {predict(Self)} :
        Returns(Call("predict", << >>, << >>, << >>), e1, "none",
                << >>, <<Step("predict", 0, Self)>>)

Update ==
    \E b \in Batches, s \in Solves :
        \E r \in {update(Self, b.ids, b.poses, s)} :
            /\ r.ekf.state # state => CameraBounded
            /\ Returns(Call("update", b.ids, b.poses, << >>), r.ekf, r.raised,
                       << >>, <<Step("update", 0, Self)>>)

Observe ==
    /\ VarianceBounded
    /\ \E b \in Batches, s \in Solves :
        /\ num_landmarks + Cardinality(NewIds(b.ids, b.poses)) <= MaxLandmarks
        /\ \E r \in {observe(Self, b.ids, b.poses, s)} :
            /\ SubSeq(r.ekf.state, 1, CAM_DIMS) # SubSeq(state, 1, CAM_DIMS)
                  => CameraBounded
            /\ Returns(Call("observe", b.ids, b.poses, << >>), r.ekf,
                       r.raised, r.ret, r.steps)

Next == AddMarker \/ Predict \/ Update \/ Observe

Spec == Init /\ [][Next]_vars

\* add_marker with any caller-supplied uncertainty, while the estimator is
\* finite.
AddMarkerAny ==
    /\ IsFinite
    /\ num_landmarks < MaxLandmarks
    /\ \E idx \in MarkerIds, pose \in {PoseA}, unc \in AnyUncertaintyArgs :
        \E e1 \in {add_marker(Self, idx, pose, unc)} :
            Returns(Call("add_marker", <<idx>>, <<pose>>, unc), e1, "none",
                    << >>, <<Step("add_marker", idx, e1)>>)

PredictFinite == IsFinite /\ Predict

UpdateFinite == IsFinite /\ Update

ObserveFinite == IsFinite /\ Observe

\* The estimator whose caller may register landmarks with any uncertainty;
\* calls are explored while the estimator is finite.
NextSolve == AddMarkerAny \/ PredictFinite \/ UpdateFinite \/ ObserveFinite

SpecSolve == Init /\ [][NextSolve]_vars

----------------------------------------------------------------------------
(* Properties.  The last call made is call; a step of the state machine is *)
(* one call, so call' names the call a step makes, the unprimed fields are *)
(* the estimator before it and the primed fields the estimator after it.   *)

\* The estimator fields are what they were before the call.
EstimatorUnchanged ==
    /\ state' = state
    /\ uncertainty' = uncertainty
    /\ num_landmarks' = num_landmarks
    /\ landmarks' = landmarks

\* C1: every observe(ids, poses) whose ids and poses differ in length fails
\* with InvalidObservationError and leaves the state vector, the covariance,
\* the landmark count and the registry exactly as they were.
C1_MismatchRejected ==
    [][(call'.op = "observe" /\ Len(call'.ids) # Len(call'.poses))
          => (raised' = "InvalidObservationError" /\ EstimatorUnchanged)]_vars

\* C2: every direct update(ids, poses) with at least one id that is not in
\* the registry fails with UnknownMarkerError, and neither the state nor the
\* covariance is changed.
C2_UnknownMarkerRejected ==
    [][(call'.op = "update"
          /\ \E k \in 1..Len(call'.ids) : call'.ids[k] \notin DOMAIN landmarks)
          => (raised' = "UnknownMarkerError"
                /\ state' = state /\ uncertainty' = uncertainty)]_vars

\* C3: the steps of one observe call are registrations, then predict, then
\* update, in that order, and every id of the batch is in the registry when
\* predict starts and when update reads the registry.
C3_RegistrationPrecedesUpdate ==
    call.op = "observe" =>
        LET n == Len(trace)
        IN /\ n >= 2
           /\ trace[n].step = "update"
           /\ trace[n - 1].step = "predict"
           /\ \A k \in 1..(n - 2) : trace[k].step = "add_marker"
           /\ \A k \in 1..Len(call.ids) :
                 /\ call.ids[k] \in trace[n - 1].known
                 /\ call.ids[k] \in trace[n].known

\* C4: an observe call that returns, returns the pair (camera pose, landmark
\* poses), equal to what get_poses() returns right after the call.
C4_ObserveReturnsPoses ==
    (call.op = "observe" /\ raised = "none") => ret = get_poses(Self)

RegistryDense ==
    /\ Cardinality(DOMAIN landmarks) = num_landmarks
    /\ {landmarks[id] : id \in DOMAIN landmarks} = 0..(num_landmarks - 1)

RegistryStable ==
    /\ \A id \in DOMAIN landmarks :
          id \in DOMAIN landmarks' /\ landmarks'[id] = landmarks[id]
    /\ \A id \in (DOMAIN landmarks') \ DOMAIN landmarks :
          landmarks'[id] >= num_landmarks

C6_RegistryDenseAndStable == []RegistryDense /\ [][RegistryStable]_vars

\* C7: add_marker of a new id appends exactly 3 scalars to the state and 3
\* rows and 3 columns to the covariance, keeps every earlier state entry,
\* the earlier covariance as top-left block and every registry index, and the
\* new landmark's covariance entries are zero off the diagonal and, on the
\* diagonal, the supplied uncertainty or else the default.
C7_AddMarkerAppends ==
    [][(call'.op = "add_marker" /\ call'.ids[1] \notin DOMAIN landmarks) =>
          LET old == Len(state)
              scale == IF call'.unc # << >> THEN call'.unc[1]
                       ELSE INITIAL_LANDMARK_UNCERTAINTY
          IN /\ Len(state') = old + LM_DIMS
             /\ SubSeq(state', 1, old) = state
             /\ Len(uncertainty') = old + LM_DIMS
             /\ \A i \in 1..(old + LM_DIMS) :
                   /\ Len(uncertainty'[i]) = old + LM_DIMS
                   /\ \A j \in 1..(old + LM_DIMS) :
                         uncertainty'[i][j] =
                            IF i <= old /\ j <= old THEN uncertainty[i][j]
                            ELSE IF i = j THEN scale ELSE 0
             /\ \A id \in DOMAIN landmarks :
                   id \in DOMAIN landmarks' /\ landmarks'[id] = landmarks[id]
      ]_vars

C7_Reached ==
    /\ call.op = "add_marker"
    /\ call.unc = <<5>>
    /\ num_landmarks = 2
    /\ Cardinality(DOMAIN landmarks) = 2
    /\ uncertainty[Len(state)][Len(state)] = 5
    /\ uncertainty[CAM_DIMS + 1][CAM_DIMS + 1] = INITIAL_LANDMARK_UNCERTAINTY

\* C8: predict leaves the state vector, the registry and the landmark count
\* unchanged; it adds the camera process noise to the 7 camera diagonal
\* entries of the covariance, the landmark process noise (zero) to the
\* landmark diagonal entries, and changes no off-diagonal entry.
C8_PredictInflatesCamera ==
    [][call'.op = "predict" =>
          /\ state' = state
          /\ landmarks' = landmarks
          /\ num_landmarks' = num_landmarks
          /\ Len(uncertainty') = Len(uncertainty)
          /\ \A i \in 1..Len(uncertainty) :
                /\ Len(uncertainty'[i]) = Len(uncertainty[i])
                /\ \A j \in 1..Len(uncertainty[i]) :
                      uncertainty'[i][j] = uncertainty[i][j] +
                         (IF i # j THEN 0
                          ELSE IF i <= CAM_DIMS THEN Q_UNCERTAINTY_CAM
                          ELSE Q_UNCERTAINTY_LM)
      ]_vars

C8_Reached ==
    /\ call.op = "predict"
    /\ num_landmarks = 2
    /\ uncertainty[1][1] = INITIAL_CAMERA_UNCERTAINTY + Q_UNCERTAINTY_CAM
    /\ uncertainty[CAM_DIMS + 1][CAM_DIMS + 1] = INITIAL_LANDMARK_UNCERTAINTY

C10_UnitQuaternion ==
    (call.op = "observe" /\ raised = "none") =>
        LET q == SubSeq(state, XYZ_DIMS + 1, CAM_DIMS)
        IN Abs(Dot(q, q) - QuatScale * QuatScale) <= QuatTol

C10_Reached ==
    /\ call.op = "observe"
    /\ raised = "none"
    /\ \A pose \in InitialPoses :
          SubSeq(state, XYZ_DIMS + 1, CAM_DIMS) # SubSeq(pose, XYZ_DIMS + 1, CAM_DIMS)
    /\ state[1] # 0

\* C11: every update whose solve fails (the factorisation raises) or yields
\* non-finite values ends with NumericalInstabilityError; no update completes
\* normally with non-finite entries written into the state or the covariance.
C11_NumericalInstabilitySurfaced ==
    [][(call'.op = "update" /\ (raised' = "RuntimeError" \/ ~IsFinite'))
          => raised' = "NumericalInstabilityError"]_vars

\* C12: when the update step of an observe call raises, every landmark the
\* call registered stays registered with its appended state block and its
\* covariance block, the earlier state, covariance and registry entries are
\* kept, and the covariance keeps the process noise predict added.
C12_ObserveNotAtomic ==
    [][(call'.op = "observe" /\ raised' # "none") =>
          LET pairs == Zip(call'.ids, call'.poses)
              paired == {pairs[k][1] : k \in 1..Len(pairs)}
              old == Len(state)
              dim == old + LM_DIMS * Cardinality(paired \ DOMAIN landmarks)
          IN /\ DOMAIN landmarks' = paired \cup DOMAIN landmarks
             /\ \A id \in DOMAIN landmarks : landmarks'[id] = landmarks[id]
             /\ num_landmarks' =
                   num_landmarks + Cardinality(paired \ DOMAIN landmarks)
             /\ Len(state') = dim
             /\ SubSeq(state', 1, old) = state
             /\ Len(uncertainty') = dim
             /\ \A i \in 1..dim :
                   /\ Len(uncertainty'[i]) = dim
                   /\ \A j \in 1..dim :
                         uncertainty'[i][j] =
                            (IF i <= old /\ j <= old THEN uncertainty[i][j]
                             ELSE IF i = j THEN INITIAL_LANDMARK_UNCERTAINTY
                             ELSE 0)
                            + (IF i # j THEN 0
                               ELSE IF i <= CAM_DIMS THEN Q_UNCERTAINTY_CAM
                               ELSE Q_UNCERTAINTY_LM)
      ]_vars

C12_Reached ==
    /\ call.op = "observe"
    /\ raised = "RuntimeError"
    /\ Len(trace) = 3
    /\ trace[1].step = "add_marker"
    /\ trace[1].id \in DOMAIN landmarks
    /\ num_landmarks = 2
    /\ Len(state) = CAM_DIMS + 2 * LM_DIMS
    /\ uncertainty[1][1] = INITIAL_CAMERA_UNCERTAINTY + Q_UNCERTAINTY_CAM
    /\ uncertainty[Len(state)][Len(state)] = INITIAL_LANDMARK_UNCERTAINTY

====
